---- MODULE Spec2Model ----
(***************************************************************************)
(* Diff/Hash.py of StreamActions: hash(args, shouldReturn) reads a file as *)
(* UTF-8 text, feeds its lines to a SHA3-256 accumulator and prints or     *)
(* returns the hex digest, or "nocontent"/None when there is no content;   *)
(* parseargs(inargs) resolves the -file option; the __main__ block runs    *)
(* parseargs on the process arguments and then hash in print mode.         *)
(*                                                                         *)
(* Bytes and code points are integers.  Text is a sequence of code points. *)
(* open(..., encoding='utf-8') is modelled by what it does: strict UTF-8   *)
(* decoding and universal-newline translation (the default newline=None).  *)
(* SHA3-256 is an ideal hash: the digest of a byte sequence is the term    *)
(* [sha3 |-> bytes], so     two digests are equal exactly when the bytes   *)
(* absorbed are equal; the literal a7ffc6f8...8434a of line 50 is the      *)
(* digest of the empty byte sequence.                                      *)
(***************************************************************************)
EXTENDS Integers, Sequences, FiniteSets, TLC

VARIABLES fs, pc, file, shouldReturn, lines, h, digest, stdout, last,
          argv, main, args, exitcode

vars == <<fs, pc, file, shouldReturn, lines, h, digest, stdout, last,
          argv, main, args, exitcode>>

(***************************************************************************)
(* Bounds of the model.                                                    *)
(***************************************************************************)
MaxLen == 2
MaxArgs == 3

(***************************************************************************)
(* Bytes used to build file contents: LF, CR, 'a' and the lead byte 0xC3.  *)
(***************************************************************************)
LF == 10
CR == 13
Alphabet == {LF, CR, 97, 195}

RECURSIVE SeqsUpTo(_, _)
SeqsUpTo(S, n) ==
  IF n = 0 THEN {<<>>}
  ELSE LET shorter == SeqsUpTo(S, n - 1)
       IN  shorter \cup {Append(s, x) : s \in {t \in shorter : Len(t) = n - 1}, x \in S}

Hello == <<104, 101, 108, 108, 111, 10>>

ExtraContents ==
  { Hello,
    <<195, 169>>,                  \* U+00E9, two bytes
    <<226, 130, 172>>,             \* U+20AC, three bytes
    <<240, 159, 152, 128>>,        \* U+1F600, four bytes
    <<239, 187, 191, 97>>,         \* byte order mark, then 'a'
    <<237, 160, 128>>,             \* an encoded surrogate: rejected
    <<192, 128>>,                  \* an overlong encoding: rejected
    <<97, 10, 255>>,               \* a complete line, then an invalid byte
    <<97, 13, 10, 98>>,            \* a CRLF inside the text
    <<97, 10, 98>> }

Contents == SeqsUpTo(Alphabet, MaxLen) \cup ExtraContents

Paths == {"p", "q"}

Missing == [kind |-> "missing", bytes |-> <<>>]
Denied == [kind |-> "denied", bytes |-> <<>>]
File(b) == [kind |-> "file", bytes |-> b]

FileStates == {Missing, Denied} \cup {File(b) : b \in Contents}

(***************************************************************************)
(* Python values.                                                          *)
(***************************************************************************)
None == [none |-> TRUE]
nocontent == [str |-> "nocontent"]
EmptyDigest == [sha3 |-> <<>>]

\* The outcome of a call that may raise: a value, or an exception.
Ok(v) == [ok |-> TRUE, val |-> v]
Raised == [ok |-> FALSE, val |-> <<>>]

(***************************************************************************)
(* The utf-8 codec (strict error handling).                                *)
(***************************************************************************)
IsCont(b) == b >= 128 /\ b <= 191

\* A decoder that lets encoded surrogates (ED A0..BF xx) through.
SeqLenSurrogates(b, i) ==
  LET b0 == b[i]
      has(n) == i + n - 1 <= Len(b)
      conts(n) == \A k \in 1..(n - 1) : IsCont(b[i + k])
  IN  IF b0 < 128 THEN 1
      ELSE IF b0 >= 194 /\ b0 <= 223
        THEN IF has(2) /\ conts(2) THEN 2 ELSE 0
      ELSE IF b0 >= 224 /\ b0 <= 239
        THEN IF has(3) /\ conts(3) /\ (b0 = 224 => b[i + 1] >= 160) THEN 3 ELSE 0
      ELSE IF b0 >= 240 /\ b0 <= 244
        THEN IF /\ has(4)
                /\ conts(4)
                /\ (b0 = 240 => b[i + 1] >= 144)
                /\ (b0 = 244 => b[i + 1] <= 143)
             THEN 4 ELSE 0
      ELSE 0

\* Number of bytes of the sequence starting at position i of b, 0 when the
\* bytes at i are not a well-formed UTF-8 sequence.
SeqLen(b, i) ==
  LET b0 == b[i]
      has(n) == i + n - 1 <= Len(b)
      conts(n) == \A k \in 1..(n - 1) : IsCont(b[i + k])
  IN  IF b0 < 128 THEN 1
      ELSE IF b0 >= 194 /\ b0 <= 223
        THEN IF has(2) /\ conts(2) THEN 2 ELSE 0
      ELSE IF b0 >= 224 /\ b0 <= 239
        THEN IF /\ has(3)
                /\ conts(3)
                /\ (b0 = 224 => b[i + 1] >= 160)
                /\ (b0 = 237 => b[i + 1] <= 159)
             THEN 3 ELSE 0
      ELSE IF b0 >= 240 /\ b0 <= 244
        THEN IF /\ has(4)
                /\ conts(4)
                /\ (b0 = 240 => b[i + 1] >= 144)
                /\ (b0 = 244 => b[i + 1] <= 143)
             THEN 4 ELSE 0
      ELSE 0

CodePoint(b, i, n) ==
  IF n = 1 THEN b[i]
  ELSE IF n = 2 THEN (b[i] - 192) * 64 + (b[i + 1] - 128)
  ELSE IF n = 3 THEN (b[i] - 224) * 4096 + (b[i + 1] - 128) * 64 + (b[i + 2] - 128)
  ELSE (b[i] - 240) * 262144 + (b[i + 1] - 128) * 4096
         + (b[i + 2] - 128) * 64 + (b[i + 3] - 128)

\* bytes.decode('utf-8'): the text, or ok FALSE (UnicodeDecodeError; val is
\* then the text decoded before the offending byte).
RECURSIVE DecodeFrom(_, _, _)
DecodeFrom(b, i, acc) ==
  IF i > Len(b) THEN Ok(acc)
  ELSE LET n == SeqLen(b, i)
       IN  IF n = 0 THEN [ok |-> FALSE, val |-> acc]
           ELSE DecodeFrom(b, i + n, Append(acc, CodePoint(b, i, n)))

Decode(b) == DecodeFrom(b, 1, <<>>)

\* One code point as UTF-8 bytes, or Raised for a surrogate.
EncodeChar(c) ==
  IF c < 128 THEN Ok(<<c>>)
  ELSE IF c < 2048 THEN Ok(<<192 + (c \div 64), 128 + (c % 64)>>)
  ELSE IF c >= 55296 /\ c <= 57343 THEN Raised
  ELSE IF c < 65536
    THEN Ok(<<224 + (c \div 4096), 128 + ((c \div 64) % 64), 128 + (c % 64)>>)
  ELSE Ok(<<240 + (c \div 262144), 128 + ((c \div 4096) % 64),
            128 + ((c \div 64) % 64), 128 + (c % 64)>>)

\* str.encode(encoding='utf-8'): the bytes, or Raised (UnicodeEncodeError).
RECURSIVE EncodeFrom(_, _, _)
EncodeFrom(s, i, acc) ==
  IF i > Len(s) THEN Ok(acc)
  ELSE LET e == EncodeChar(s[i])
       IN  IF ~e.ok THEN Raised ELSE EncodeFrom(s, i + 1, acc \o e.val)

Encode(s) == EncodeFrom(s, 1, <<>>)

(***************************************************************************)
(* Text-mode reading with newline=None: "\r\n" and "\r" become "\n".       *)
(***************************************************************************)
RECURSIVE TranslateFrom(_, _, _)
TranslateFrom(s, i, acc) ==
  IF i > Len(s) THEN acc
  ELSE IF s[i] = CR
    THEN IF i < Len(s) /\ s[i + 1] = LF
           THEN TranslateFrom(s, i + 2, Append(acc, LF))
           ELSE TranslateFrom(s, i + 1, Append(acc, LF))
  ELSE TranslateFrom(s, i + 1, Append(acc, s[i]))

Translate(s) == TranslateFrom(s, 1, <<>>)

\* The lines of a text, each with its terminating "\n" when it has one.
RECURSIVE SplitFrom(_, _, _, _)
SplitFrom(s, i, cur, acc) ==
  IF i > Len(s) THEN (IF cur = <<>> THEN acc ELSE Append(acc, cur))
  ELSE IF s[i] = LF THEN SplitFrom(s, i + 1, <<>>, Append(acc, Append(cur, LF)))
  ELSE SplitFrom(s, i + 1, Append(cur, s[i]), acc)

SplitLines(s) == SplitFrom(s, 1, <<>>, <<>>)

\* A reader that keeps the lines decoded before a decoding error.
readlinesPartial(entry) ==
  IF entry.kind # "file" THEN Raised
  ELSE Ok(SplitLines(Translate(Decode(entry.bytes).val)))

\* open(args.file, encoding='utf-8') and f.readlines(): the list of lines,
\* or Raised (OSError from open, UnicodeDecodeError from readlines).
readlines(entry) ==
  IF entry.kind # "file" THEN Raised
  ELSE LET text == Decode(entry.bytes)
       IN  IF ~text.ok THEN Raised ELSE Ok(SplitLines(Translate(text.val)))

(***************************************************************************)
(* hashlib.sha3_256: the accumulator holds the bytes absorbed so far.      *)
(***************************************************************************)
\* An accumulator shared by the calls instead of a fresh one.
sha3_256_shared == h

sha3_256 == <<>>

update(acc, data) == acc \o data

hexdigest(acc) == [sha3 |-> acc]

\* The loop of lines 44-45 from line i on: the accumulator after the loop,
\* with ok FALSE when an encode raised (val is then the accumulator so far).
RECURSIVE UpdateAll(_, _, _)
UpdateAll(acc, ls, i) ==
  IF i > Len(ls) THEN Ok(acc)
  ELSE LET e == Encode(ls[i])
       IN  IF ~e.ok THEN [ok |-> FALSE, val |-> acc]
           ELSE UpdateAll(update(acc, e.val), ls, i + 1)

\* The condition with only the test for a missing digest.
NoContentNoneOnly(ls, d) == d = None

\* The condition with "and" for "or".
NoContentAll(ls, d) == Len(ls) = 0 /\ d = None /\ d = EmptyDigest

\* Line 50: the no-content condition.
NoContent(ls, d) == Len(ls) = 0 \/ d = None \/ d = EmptyDigest

(***************************************************************************)
(* argparse: a parser with the options -h/--help and -file (one value,     *)
(* required), and no positional argument.  parse_known_args scans the      *)
(* arguments left to right: an option runs its action when it is met, an   *)
(* unrecognised argument is set aside, and the required option is checked  *)
(* at the end.  A prefix of -file such as -f stands for -file.             *)
(***************************************************************************)
Tokens == {"-file", "-f", "-h", "-x", "p", "q"}

ArgLists == SeqsUpTo(Tokens, MaxArgs)

NoValue == ""

IsOptionLike(t) == t \in {"-file", "-f", "-h", "-x"}

OptionAction(t) ==
  IF t \in {"-file", "-f"} THEN "store"
  ELSE IF t = "-h" THEN "help"
  ELSE "unknown"

Exit(code) == [returned |-> FALSE, code |-> code, file |-> NoValue, extras |-> <<>>]

RECURSIVE ParseFrom(_, _, _, _)

\* parse_args: an unrecognised argument is an error.
UnknownRejected(a, i, f, extras) == Exit(2)

\* parse_known_args (line 64): an unrecognised argument is set aside.
Unknown(a, i, f, extras) == ParseFrom(a, i + 1, f, Append(extras, a[i]))

ParseFrom(a, i, f, extras) ==
  IF i > Len(a)
    THEN IF f = NoValue THEN Exit(2)
         ELSE [returned |-> TRUE, code |-> 0, file |-> f, extras |-> extras]
  ELSE IF ~IsOptionLike(a[i]) THEN Unknown(a, i, f, extras)
  ELSE IF OptionAction(a[i]) = "help" THEN Exit(0)
  ELSE IF OptionAction(a[i]) = "unknown" THEN Unknown(a, i, f, extras)
  ELSE IF i < Len(a) /\ ~IsOptionLike(a[i + 1]) THEN ParseFrom(a, i + 2, a[i + 1], extras)
  ELSE Exit(2)

\* Lines 61-65.
parseargs(inargs) == ParseFrom(inargs, 1, NoValue, <<>>)

(***************************************************************************)
(* State.                                                                  *)
(*   fs            the file behind each path                               *)
(*   pc            where the running call of hash is: "idle" (no call),    *)
(*                 "read" (after line 40), "hashed" (after line 48)        *)
(*   file, shouldReturn, lines, digest   the call's arguments and locals   *)
(*   h             the accumulator object of line 43                       *)
(*   stdout        what the call (or the program run) has written to       *)
(*                 standard output                                         *)
(*   last          for each path, the outcome of the latest completed call *)
(*   argv, main, args, exitcode   the standalone run: its arguments, its   *)
(*                 position, the parsed namespace and the exit status      *)
(***************************************************************************)
NotRun == [called |-> FALSE]

Lookup(f) == IF f \in DOMAIN fs THEN fs[f] ELSE Missing

NotExited == -1

\* Lines 36-40 of a call hash(args, sr) with args.file = f.
HashRead(f, sr) ==
  /\ pc = "idle"
  /\ LET r == readlines(Lookup(f))
     IN  lines' = IF r.ok THEN r.val ELSE <<>>
  /\ file' = f
  /\ shouldReturn' = sr
  /\ stdout' = <<>>
  /\ pc' = "read"
  /\ UNCHANGED <<fs, h, digest, last, argv, args, exitcode>>

\* Lines 42-48.
HashDigest ==
  /\ pc = "read"
  /\ LET r == UpdateAll(sha3_256, lines, 1)
     IN  /\ h' = r.val
         /\ digest' = IF r.ok THEN hexdigest(r.val) ELSE None
  /\ pc' = "hashed"
  /\ UNCHANGED <<fs, file, shouldReturn, lines, stdout, last, argv, main, args, exitcode>>

\* A delivery that prints in return mode too.
HashDeliverAlwaysPrint ==
  /\ pc = "hashed"
  /\ LET nc == NoContent(lines, digest)
         value == IF nc THEN None ELSE digest
         text == IF nc THEN nocontent ELSE digest
         out == Append(stdout, text)
     IN  /\ stdout' = out
         /\ last' = [last EXCEPT ![file] =
                       [called |-> TRUE, shouldReturn |-> shouldReturn,
                        lines |-> lines, fed |-> h, digest |-> digest,
                        ret |-> IF shouldReturn THEN value ELSE None,
                        stdout |-> out]]
  /\ pc' = "idle"
  /\ lines' = <<>>
  /\ digest' = None
  /\ file' = NoValue
  /\ shouldReturn' = FALSE
  /\ UNCHANGED <<fs, h, argv, main, args, exitcode>>

\* Lines 50-59, and the return to the caller.
HashDeliver ==
  /\ pc = "hashed"
  /\ LET nc == NoContent(lines, digest)
         value == IF nc THEN None ELSE digest
         text == IF nc THEN nocontent ELSE digest
         out == IF shouldReturn THEN stdout ELSE Append(stdout, text)
     IN  /\ stdout' = out
         /\ last' = [last EXCEPT ![file] =
                       [called |-> TRUE, shouldReturn |-> shouldReturn,
                        lines |-> lines, fed |-> h, digest |-> digest,
                        ret |-> IF shouldReturn THEN value ELSE None,
                        stdout |-> out]]
  /\ pc' = "idle"
  /\ lines' = <<>>
  /\ digest' = None
  /\ file' = NoValue
  /\ shouldReturn' = FALSE
  /\ UNCHANGED <<fs, h, argv, main, args, exitcode>>

\* A caller's hash(args, shouldReturn).
Call == \E f \in Paths, sr \in BOOLEAN : HashRead(f, sr) /\ main = "library" /\ main' = main

\* Line 68.
MainParse ==
  /\ main = "start"
  /\ LET r == parseargs(argv)
     IN  IF r.returned
           THEN /\ args' = r.file
                /\ main' = "parsed"
                /\ UNCHANGED <<exitcode, stdout>>
           ELSE /\ main' = "exited"
                /\ exitcode' = r.code
                /\ stdout' = IF r.code = 0 THEN <<[str |-> "usage"]>> ELSE stdout
                /\ UNCHANGED args
  /\ UNCHANGED <<fs, pc, file, shouldReturn, lines, h, digest, last, argv>>

\* Line 69.
MainHash ==
  /\ main = "parsed"
  /\ HashRead(args, FALSE)
  /\ main' = "hashing"

\* An exit status that reports the no-content result as a failure.
ExitStatusNoContent(out) == IF out = <<nocontent>> THEN 1 ELSE 0

\* The status of a run that reaches the end of the script.
ExitStatus(out) == 0

\* The end of the script.
MainExit ==
  /\ main = "hashing"
  /\ pc = "idle"
  /\ main' = "exited"
  /\ exitcode' = ExitStatus(stdout)
  /\ UNCHANGED <<fs, pc, file, shouldReturn, lines, h, digest, stdout, last, argv, args>>

Locals ==
  /\ pc = "idle"
  /\ file = NoValue
  /\ shouldReturn = FALSE
  /\ lines = <<>>
  /\ h = <<>>
  /\ digest = None
  /\ stdout = <<>>
  /\ last = [p \in Paths |-> NotRun]

\* hash used as a library function, on any two files.
Init ==
  /\ fs \in [Paths -> FileStates]
  /\ Locals
  /\ argv = <<>>
  /\ main = "library"
  /\ args = NoValue
  /\ exitcode = NotExited

Next == Call \/ HashDigest \/ HashDeliver

Spec == Init /\ [][Next]_vars

\* The standalone program.
MainFileStates == {Missing, Denied, File(<<>>), File(Hello), File(<<97, 10, 255>>)}

InitMain ==
  /\ fs \in [Paths -> MainFileStates]
  /\ Locals
  /\ argv \in ArgLists
  /\ main = "start"
  /\ args = NoValue
  /\ exitcode = NotExited

NextMain == MainParse \/ MainHash \/ HashDigest \/ HashDeliver \/ MainExit

SpecMain == InitMain /\ [][NextMain]_vars

TypeOK ==
  /\ pc \in {"idle", "read", "hashed"}
  /\ main \in {"library", "start", "parsed", "hashing", "exited"}
  /\ shouldReturn \in BOOLEAN
  /\ exitcode \in {NotExited, 0, 2}
  /\ Len(stdout) <= 1

(***************************************************************************)
(* Vocabulary of the properties.                                           *)
(***************************************************************************)
Called == {p \in Paths : last[p].called}

\* The file is read without error: it exists, is readable and is UTF-8.
ReadsOk(e) == e.kind = "file" /\ Decode(e.bytes).ok

\* What the caller observes of a completed call: the value returned and
\* the lines written.
Observed(l) == <<l.ret, l.stdout>>

\* The result of a completed call, whichever way it was delivered.
Result(l) ==
  IF l.shouldReturn THEN (IF l.ret = None THEN nocontent ELSE l.ret)
  ELSE l.stdout[1]

\* The no-content condition of a completed call, from its recorded locals.
Cond(l) == l.lines = <<>> \/ l.digest = None \/ l.digest = EmptyDigest

IsDigest(v) == DOMAIN v = {"sha3"}

(***************************************************************************)
(* C1.  A call on a path whose read fails (missing file, no permission, a  *)
(* decoding error anywhere in the content) has zero lines and ends with    *)
(* the no-content result: print mode writes exactly nocontent, return mode *)
(* returns None and writes nothing; no digest of a prefix is produced.     *)
(***************************************************************************)
C1_ReadFailureIsNoContent ==
  \A p \in Called :
    ~ReadsOk(fs[p]) =>
      /\ last[p].lines = <<>>
      /\ last[p].ret = None
      /\ last[p].stdout = IF last[p].shouldReturn THEN <<>> ELSE <<nocontent>>

C1_Witness ==
  \E p, q \in Called :
    /\ fs[p] = File(<<97, 10, 255>>)
    /\ ~last[p].shouldReturn
    /\ last[p].stdout = <<nocontent>>
    /\ fs[q] = Missing
    /\ last[q].shouldReturn
    /\ last[q].ret = None

(***************************************************************************)
(* C3.  Two files that are read without error and whose bytes differ have  *)
(* different bytes fed to the accumulator and different digests: line      *)
(* terminators are never normalised.                                       *)
(***************************************************************************)
C3_DistinctBytesDistinctDigests ==
  \A p, q \in Called :
    (ReadsOk(fs[p]) /\ ReadsOk(fs[q]) /\ fs[p].bytes # fs[q].bytes) =>
      /\ last[p].fed # last[q].fed
      /\ last[p].digest # last[q].digest

(***************************************************************************)
(* C4.  For a non-empty file read without error, the bytes fed to the      *)
(* accumulator, line after line, are the bytes of the file, and the digest *)
(* is the SHA3-256 of the bytes of the file.                               *)
(***************************************************************************)
C4_DigestOfExactBytes ==
  \A p \in Called :
    (ReadsOk(fs[p]) /\ fs[p].bytes # <<>>) =>
      /\ last[p].fed = fs[p].bytes
      /\ last[p].digest = hexdigest(fs[p].bytes)
      /\ Result(last[p]) = hexdigest(fs[p].bytes)

(***************************************************************************)
(* C5.  An empty file and a missing file give the same observable result   *)
(* in each mode: nocontent written in print mode, None returned in return  *)
(* mode.                                                                   *)
(***************************************************************************)
C5_EmptyAsMissing ==
  \A p, q \in Called :
    (fs[p] = File(<<>>) /\ fs[q] = Missing) =>
      /\ last[p].shouldReturn = last[q].shouldReturn => Observed(last[p]) = Observed(last[q])
      /\ Observed(last[p]) = IF last[p].shouldReturn THEN <<None, <<>>>>
                                                     ELSE <<None, <<nocontent>>>>
      /\ Result(last[p]) = Result(last[q])

C5_Witness ==
  \E p, q \in Called :
    /\ fs[p] = File(<<>>)
    /\ fs[q] = Missing
    /\ ~last[p].shouldReturn
    /\ ~last[q].shouldReturn
    /\ last[p].stdout = <<nocontent>>

(***************************************************************************)
(* C6.  A call in print mode writes exactly one line, a digest or          *)
(* nocontent: nocontent exactly when the line sequence is empty, or no     *)
(* digest was produced, or the digest is that of the empty input.  Nothing *)
(* is written before the call delivers.                                    *)
(***************************************************************************)
C6_PrintOneLine ==
  /\ pc # "idle" => stdout = <<>>
  /\ \A p \in Called :
       ~last[p].shouldReturn =>
         /\ Len(last[p].stdout) = 1
         /\ Cond(last[p]) => last[p].stdout[1] = nocontent
         /\ ~Cond(last[p]) => /\ last[p].stdout[1] = last[p].digest
                              /\ IsDigest(last[p].stdout[1])

C6_Witness ==
  \E p, q \in Called :
    /\ ~last[p].shouldReturn
    /\ ~last[q].shouldReturn
    /\ last[p].stdout = <<nocontent>>
    /\ last[q].stdout = <<hexdigest(Hello)>>

(***************************************************************************)
(* C7.  A call in return mode returns None exactly when the no-content     *)
(* condition holds and the digest otherwise, and writes nothing to         *)
(* standard output; no step of a call in either mode changes a file.       *)
(***************************************************************************)
C7_ReturnInv ==
  \A p \in Called :
    last[p].shouldReturn =>
      /\ Cond(last[p]) => last[p].ret = None
      /\ ~Cond(last[p]) => last[p].ret = last[p].digest /\ IsDigest(last[p].ret)
      /\ last[p].stdout = <<>>

C7_ReturnMode ==
  /\ []C7_ReturnInv
  /\ [][fs' = fs /\ (shouldReturn /\ pc # "idle" => stdout' = stdout)]_vars

C7_Witness ==
  \E p, q \in Called :
    /\ last[p].shouldReturn
    /\ last[q].shouldReturn
    /\ last[p].ret = None
    /\ last[q].ret = hexdigest(Hello)
    /\ fs[q] = File(Hello)

(***************************************************************************)
(* C8.  Calls on files with the same state give the same result, whatever  *)
(* calls came before: any two completed calls agree, and a call about to   *)
(* deliver agrees with every completed call on the same content.           *)
(***************************************************************************)
C8_Deterministic ==
  /\ \A p, q \in Called : fs[p] = fs[q] => Result(last[p]) = Result(last[q])
  /\ pc = "hashed" =>
       \A q \in Called :
         fs[q] = Lookup(file) =>
           Result(last[q]) = IF Cond([lines |-> lines, digest |-> digest])
                               THEN nocontent ELSE digest

C8_Witness ==
  /\ pc = "hashed"
  /\ file = "p"
  /\ last["p"].called
  /\ last["q"].called
  /\ fs["p"] = fs["q"]
  /\ fs["p"] = File(<<97, 10, 98>>)
  /\ last["p"].shouldReturn # last["q"].shouldReturn

(***************************************************************************)
(* C10.  For a non-empty file read without error the line sequence is      *)
(* non-empty, the bytes fed are non-empty, a digest is produced and is not *)
(* the digest of the empty input, and the result is that digest; the       *)
(* no-content condition holds only when the line sequence is empty.        *)
(***************************************************************************)
C10_ConstantRedundant ==
  /\ \A p \in Called :
       /\ (ReadsOk(fs[p]) /\ fs[p].bytes # <<>>) =>
            /\ last[p].lines # <<>>
            /\ last[p].fed # <<>>
            /\ last[p].digest # None
            /\ last[p].digest # EmptyDigest
            /\ Result(last[p]) = last[p].digest
       /\ Result(last[p]) = nocontent => last[p].lines = <<>>
  /\ pc = "hashed" => (NoContent(lines, digest) <=> lines = <<>>)

C10_Witness ==
  \E p, q \in Called :
    /\ fs[p] = File(<<CR>>)
    /\ Result(last[p]) = last[p].digest
    /\ fs[q] = File(<<237, 160, 128>>)
    /\ Result(last[q]) = nocontent

(***************************************************************************)
(* C2.  Every run of the standalone program ends with exit status 0.       *)
(***************************************************************************)
C2_AlwaysExitsZero == main = "exited" => exitcode = 0

(***************************************************************************)
(* C2, amended.  Every run in which parseargs returns ends with exit       *)
(* status 0, whatever the state of the file; a run ends with another       *)
(* status only when parseargs rejects the arguments, with status 2 and     *)
(* before hash has run.                                                    *)
(***************************************************************************)
C2_ExitsZeroOnceParsed ==
  main = "exited" =>
    /\ args # NoValue => exitcode = 0 /\ Len(stdout) = 1
    /\ exitcode # 0 => exitcode = 2 /\ args = NoValue /\ stdout = <<>> /\ Called = {}

C2_Witness ==
  /\ main = "exited"
  /\ args = "p"
  /\ fs["p"] = Missing
  /\ stdout = <<nocontent>>
  /\ exitcode = 0

(***************************************************************************)
(* C9.  An argument list with -file <path> and any extra arguments other   *)
(* than -file is parsed to a namespace whose file is <path>.               *)
(***************************************************************************)
FilePairAt(i) == i < Len(argv) /\ argv[i] = "-file" /\ argv[i + 1] \in Paths

Extras(i) == {argv[j] : j \in (1..Len(argv)) \ {i, i + 1}}

C9_ExtrasIgnored ==
  main # "start" =>
    \A i \in 1..Len(argv) :
      (FilePairAt(i) /\ "-file" \notin Extras(i)) => args = argv[i + 1]

(***************************************************************************)
(* C9, amended.  An argument list with -file <path> and any extra          *)
(* arguments that are neither -file, nor an abbreviation of it (-f), nor   *)
(* the help option (-h) is parsed to a namespace whose file is <path>.     *)
(***************************************************************************)
C9_UnrecognizedExtrasIgnored ==
  main # "start" =>
    \A i \in 1..Len(argv) :
      (FilePairAt(i) /\ Extras(i) \cap {"-file", "-f", "-h"} = {}) => args = argv[i + 1]

C9_Witness ==
  /\ main = "exited"
  /\ Len(argv) = 3
  /\ argv[1] = "-x"
  /\ argv[2] = "-file"
  /\ argv[3] = "q"
  /\ args = "q"

====
